---------------------------- MODULE Spec2Model ----------------------------
(***************************************************************************)
(* Sportabase backend (backend/app/main.py): the merit scorer, the         *)
(* summarizer with its extractive fallback, and the ingestion pipeline     *)
(* over the SQLite stories table.                                          *)
(***************************************************************************)
EXTENDS Integers, Sequences, FiniteSets, TLC

VARIABLES
    body,        \* merit_score: the features of the scoring corpus (title + text)
    score,       \* merit_score: the returned {"total", "badge", "reasons"}
    text,        \* gemini_tldr / extractive_fallback: the text argument
    max_bullets, \* gemini_tldr / extractive_fallback: the max_bullets argument
    client,      \* _GEMINI_CLIENT is not None
    tldr,        \* the outcome of the summarizer call
    sources,     \* data/sources.json: the configured sources
    served,      \* what each feed url answers at present
    gemini,      \* the ways the AI service can behave in this deployment
    stories,     \* the committed rows of table stories, in insertion order
    wlock,       \* the connection holding SQLite's write lock (0: none)
    conn,        \* per ingest call: its connection's open transaction
    run,         \* per ingest call: the locals of ingest() and where it stands
    clock,       \* the number of ingest calls started so far
    outcome,     \* per started ingest call, by start order: how it ended
    listing      \* the last answer of GET /stories

scoreVars == <<body, score>>
tldrVars == <<text, max_bullets, tldr>>
envVars == <<sources, served, gemini>>
dbVars == <<stories, wlock, conn>>
ingestVars == <<stories, wlock, conn, run, clock, outcome>>

vars == <<body, score, text, max_bullets, client, tldr, sources, served, gemini,
          stories, wlock, conn, run, clock, outcome, listing>>

Min(a, b) == IF a <= b THEN a ELSE b
Max(a, b) == IF a >= b THEN a ELSE b

(***************************************************************************)
(* Scoring                                                                 *)
(***************************************************************************)

\* Bounds on the scoring corpus: numeric tokens, quote characters, and the
\* number of lexicon words present.
MaxNums == 13
MaxQuotes == 14
MaxHits == 1

R_OFFICIAL == "Uses official/confirmed language (e.g., confirmed/announced)."
R_HEDGING == "Contains hedging/rumor language (e.g., reportedly/could/sources)."
R_NUMS_HIGH == "Includes multiple specific numbers/details (higher factual density)."
R_NUMS_LOW == "Few concrete details (mostly narrative / low specificity)."
R_QUOTES == "Includes quoted statements (adds some evidence context)."
R_HIGH == "Overall signals point to high credibility."
R_LOW == "Overall signals point to low evidence / speculative content."

badge_strict(s) ==
    IF s < 20 THEN "Speculative"
    ELSE IF s < 40 THEN "Low Evidence"
    ELSE IF s < 60 THEN "Emerging"
    ELSE IF s < 80 THEN "High Credibility"
    ELSE "Confirmed"

badge(s) ==
    IF s <= 20 THEN "Speculative"
    ELSE IF s <= 40 THEN "Low Evidence"
    ELSE IF s <= 60 THEN "Emerging"
    ELSE IF s <= 80 THEN "High Credibility"
    ELSE "Confirmed"

factual_density_uncapped(nums, quotes) == nums * 3 + Min(12, quotes)

factual_density(nums, quotes) == Min(35, nums * 3 + Min(12, quotes))

evidence_quality(has_official, hedging) ==
    IF has_official THEN 28 ELSE 12 - (IF hedging THEN 6 ELSE 0)

originality == 15
relevance == 10
impact == 10

clamp_total(t) == Max(0, Min(100, t))

Prefix(s, n) == SubSeq(s, 1, Min(n, Len(s)))

build_reasons_no_guard(has_official, hedging, nums, quotes, total) ==
    LET r1 == IF has_official THEN <<R_OFFICIAL>> ELSE <<>>
        r2 == IF hedging THEN <<R_HEDGING>> ELSE <<>>
        r3 == IF nums >= 3 THEN <<R_NUMS_HIGH>>
              ELSE IF nums = 0 THEN <<R_NUMS_LOW>> ELSE <<>>
        r4 == IF quotes >= 2 THEN <<R_QUOTES>> ELSE <<>>
        r5 == IF total >= 80 THEN <<R_HIGH>>
              ELSE IF total <= 40 THEN <<R_LOW>> ELSE <<>>
    IN Prefix(r1 \o r2 \o r3 \o r4 \o r5, 4)

build_reasons(has_official, hedging, nums, quotes, total) ==
    LET r1 == IF has_official THEN <<R_OFFICIAL>> ELSE <<>>
        r2 == IF hedging /\ ~has_official THEN <<R_HEDGING>> ELSE <<>>
        r3 == IF nums >= 3 THEN <<R_NUMS_HIGH>>
              ELSE IF nums = 0 THEN <<R_NUMS_LOW>> ELSE <<>>
        r4 == IF quotes >= 2 THEN <<R_QUOTES>> ELSE <<>>
        r5 == IF total >= 80 THEN <<R_HIGH>>
              ELSE IF total <= 40 THEN <<R_LOW>> ELSE <<>>
    IN Prefix(r1 \o r2 \o r3 \o r4 \o r5, 4)

\* b: the corpus reduced to what merit_score reads of it.
merit_score(b) ==
    LET hedging == b.hedging_hits > 0
        has_official == b.official_hits > 0
        total == clamp_total(factual_density(b.nums, b.quotes)
                             + evidence_quality(has_official, hedging)
                             + originality + relevance + impact)
    IN [total |-> total,
        badge |-> badge(total),
        reasons |-> build_reasons(has_official, hedging, b.nums, b.quotes, total)]

Bodies ==
    [nums : 0..MaxNums, quotes : 0..MaxQuotes,
     hedging_hits : 0..MaxHits, official_hits : 0..MaxHits]

NoScore == [done |-> FALSE, total |-> 0, badge |-> "", reasons |-> <<>>]


(***************************************************************************)
(* Strings                                                                 *)
(*                                                                         *)
(* A string is a sequence of runs <<c, n>>: character c repeated n >= 1    *)
(* times, adjacent runs holding different characters.  Lengths, prefixes,  *)
(* case folding and substring search are computed on the runs, so the      *)
(* program's own length thresholds (30, 240, 237) are kept.                *)
(***************************************************************************)

RECURSIVE Norm(_)
Norm(s) ==
    IF Len(s) = 0 THEN <<>>
    ELSE IF s[1][2] = 0 THEN Norm(Tail(s))
    ELSE IF Len(s) = 1 THEN s
    ELSE IF s[2][2] = 0 THEN Norm(<<s[1]>> \o Tail(Tail(s)))
    ELSE IF s[1][1] = s[2][1]
         THEN Norm(<<<<s[1][1], s[1][2] + s[2][2]>>>> \o Tail(Tail(s)))
    ELSE <<s[1]>> \o Norm(Tail(s))

Rep(c, n) == IF n = 0 THEN <<>> ELSE <<<<c, n>>>>

Cat(a, b) == Norm(a \o b)

RECURSIVE SLen(_)
SLen(s) == IF Len(s) = 0 THEN 0 ELSE s[1][2] + SLen(Tail(s))

\* s[:n]
RECURSIVE Take(_, _)
Take(s, n) ==
    IF n <= 0 \/ Len(s) = 0 THEN <<>>
    ELSE IF s[1][2] >= n THEN <<<<s[1][1], n>>>>
    ELSE <<s[1]>> \o Take(Tail(s), n - s[1][2])

\* The characters of s, one string each (iterating a Python str).
RECURSIVE Chars(_)
Chars(s) ==
    IF Len(s) = 0 THEN <<>>
    ELSE <<Rep(s[1][1], 1)>> \o Chars(Norm(<<<<s[1][1], s[1][2] - 1>>>> \o Tail(s)))

IsSpace(c) == c \in {" ", "\n", "\t"}

LowerCh(c) ==
    CASE c = "A" -> "a"
      [] c = "B" -> "b"
      [] c = "C" -> "c"
      [] c = "M" -> "m"
      [] OTHER -> c

\* str.lower()
Lower(s) == Norm([i \in 1..Len(s) |-> <<LowerCh(s[i][1]), s[i][2]>>])

RECURSIVE LStrip(_)
LStrip(s) ==
    IF Len(s) = 0 THEN <<>>
    ELSE IF IsSpace(s[1][1]) THEN LStrip(Tail(s))
    ELSE s

RECURSIVE RStrip(_)
RStrip(s) ==
    IF Len(s) = 0 THEN <<>>
    ELSE IF IsSpace(s[Len(s)][1]) THEN RStrip(SubSeq(s, 1, Len(s) - 1))
    ELSE s

\* str.strip()
Strip(s) == LStrip(RStrip(s))

\* re.sub(r"\s+", " ", s)
RECURSIVE CollapseWs(_)
CollapseWs(s) ==
    IF Len(s) = 0 THEN <<>>
    ELSE IF IsSpace(s[1][1])
         THEN IF Len(s) > 1 /\ IsSpace(s[2][1])
              THEN CollapseWs(Tail(s))
              ELSE <<<<" ", 1>>>> \o CollapseWs(Tail(s))
    ELSE <<s[1]>> \o CollapseWs(Tail(s))

\* p in s, for strings in normal form: the inner runs of p match runs of s
\* exactly and its two end runs fit inside the runs of s they fall in.
Contains(s, p) ==
    LET k == Len(p) IN
    IF k = 0 THEN TRUE
    ELSE \E i \in 1..(Len(s) - k + 1) :
            \A j \in 1..k :
                /\ s[i + j - 1][1] = p[j][1]
                /\ IF j = 1 \/ j = k
                   THEN s[i + j - 1][2] >= p[j][2]
                   ELSE s[i + j - 1][2] = p[j][2]

\* A literal whose characters are all different from their neighbours.
Lit(cs) == [i \in 1..Len(cs) |-> <<cs[i], 1>>]

IsSentenceEnd(c) == c \in {".", "!", "?"}

\* re.split(r"(?<=[.!?])\s+", s): cut at every whitespace run that follows
\* sentence punctuation, dropping the whitespace.  cur is the piece so far.
RECURSIVE SplitFrom(_, _)
SplitFrom(s, cur) ==
    IF Len(s) = 0 THEN <<cur>>
    ELSE IF /\ IsSpace(s[1][1])
            /\ Len(cur) > 0
            /\ IsSentenceEnd(cur[Len(cur)][1])
         THEN <<cur>> \o SplitFrom(LStrip(s), <<>>)
    ELSE SplitFrom(Tail(s), cur \o <<s[1]>>)

SplitSentences(s) == SplitFrom(s, <<>>)

(***************************************************************************)
(* Summarizer                                                              *)
(***************************************************************************)

MinSentenceLen == 30
MaxSentenceLen == 240
ClipLen == 237

Boilerplate ==
    { Lit(<<"f","o","r"," ","o","t","h","e","r"," ","u","s","e","s">>),
      Lit(<<"t","h","i","s"," ","a","r","t","i","c","l","e"," ","i","s"," ",
            "a","b","o","u","t">>),
      Lit(<<"d","i","s","a","m","b","i","g","u","a","t","i","o","n">>),
      Lit(<<"m","a","y"," ","r","e","f","e","r"," ","t","o">>) }

\* The loop of extractive_fallback from sentence i on.
RECURSIVE fallback_loop(_, _, _, _, _)
fallback_loop(sents, i, out, seen, max) ==
    IF i > Len(sents) THEN out
    ELSE
        LET s == Strip(sents[i])
            low == Lower(s)
        IN  IF SLen(s) < MinSentenceLen
                THEN fallback_loop(sents, i + 1, out, seen, max)
            ELSE IF \E x \in Boilerplate : Contains(low, x)
                THEN fallback_loop(sents, i + 1, out, seen, max)
            ELSE IF low \in seen
                THEN fallback_loop(sents, i + 1, out, seen, max)
            ELSE
                LET kept == IF SLen(s) > MaxSentenceLen
                            THEN Cat(RStrip(Take(s, ClipLen)), Rep(".", 3))
                            ELSE s
                    out2 == Append(out, kept)
                IN  IF Len(out2) >= max THEN out2
                    ELSE fallback_loop(sents, i + 1, out2, seen \cup {low},
                                       max)

extractive_fallback(txt, max) ==
    LET t == Strip(CollapseWs(txt))
    IN  IF Len(t) = 0 THEN <<>>
        ELSE fallback_loop(SplitSentences(t), 1, <<>>, {}, max)

(***************************************************************************)
(* The AI path: the service's reply as a sequence of lexical tokens, JSON  *)
(* values as trees.  json.loads accepts exactly the token sequences that   *)
(* render a JSON value.                                                    *)
(***************************************************************************)

Tok(k) == [k |-> k, s |-> <<>>, key |-> ""]
TStr(s) == [k |-> "str", s |-> s, key |-> ""]
TKey(name) == [k |-> "key", s |-> <<>>, key |-> name]

JStr(s) == [t |-> "str", s |-> s, items |-> <<>>]
JNum == [t |-> "num", s |-> <<>>, items |-> <<>>]
JNull == [t |-> "null", s |-> <<>>, items |-> <<>>]
JList(items) == [t |-> "list", s |-> <<>>, items |-> items]
\* members: a sequence of <<key, value>>
JObj(members) == [t |-> "obj", s |-> <<>>, items |-> members]

RECURSIVE Render(_)
RECURSIVE RenderItems(_)
RECURSIVE RenderMembers(_)
Render(v) ==
    CASE v.t = "str" -> <<TStr(v.s)>>
      [] v.t = "num" -> <<Tok("num")>>
      [] v.t = "null" -> <<Tok("null")>>
      [] v.t = "list" -> <<Tok("[")>> \o RenderItems(v.items) \o <<Tok("]")>>
      [] v.t = "obj" -> <<Tok("{")>> \o RenderMembers(v.items) \o <<Tok("}")>>

RenderItems(items) ==
    IF Len(items) = 0 THEN <<>>
    ELSE IF Len(items) = 1 THEN Render(items[1])
    ELSE Render(items[1]) \o <<Tok(",")>> \o RenderItems(Tail(items))

RenderMembers(ms) ==
    IF Len(ms) = 0 THEN <<>>
    ELSE LET m == <<TKey(ms[1][1]), Tok(":")>> \o Render(ms[1][2])
         IN IF Len(ms) = 1 THEN m
            ELSE m \o <<Tok(",")>> \o RenderMembers(Tail(ms))

\* Bullet strings the service may send: plain, padded, blank, empty.
BulletA == Rep("a", 5)
BulletB == <<<<" ", 1>>, <<"b", 3>>, <<" ", 1>>>>
BulletBlank == Rep(" ", 2)
BulletEmpty == <<>>

BulletItems == {JStr(BulletA), JStr(BulletB), JStr(BulletBlank), JNum}

\* Longest "bullets" list the service sends.
MaxReplyBullets == 2

BulletLists ==
    UNION { [1..n -> BulletItems] : n \in 0..MaxReplyBullets }

BulletsValues ==
    { JList(l) : l \in BulletLists }
        \cup { JStr(Cat(Rep("a", 1), Rep("b", 1))), JStr(BulletEmpty), JNull, JNum,
               JObj(<<<<"k", JNum>>>>) }

GoodReply == JObj(<<<<"bullets", JList(<<JStr(BulletA), JStr(BulletB)>>)>>>>)

ReplyObjects ==
    { JObj(<<<<"bullets", b>>>>) : b \in BulletsValues }
        \cup { JObj(<<>>), JObj(<<<<"note", JNum>>>>),
               JObj(<<<<"note", JNum>>, <<"bullets", JList(<<JStr(BulletA)>>)>>>>) }

ReplyValues ==
    ReplyObjects
        \cup { JList(<<GoodReply>>), JList(<<JObj(<<>>), JObj(<<>>)>>),
               JList(<<JStr(BulletA)>>), JStr(BulletA), JNum, JNull }

\* Every value a reply, or a part of one, can be.
JsonValues ==
    ReplyValues \cup BulletsValues \cup BulletItems

Rendering == [v \in JsonValues |-> Render(v)]

Prose == Tok("prose")

\* resp.text: a value, alone or with text around it; or nothing.
RawReplies ==
    { Rendering[v] : v \in ReplyValues }
        \cup { pre \o Rendering[v] \o post :
                 pre \in {<<>>, <<Prose>>},
                 post \in {<<>>, <<Prose>>, <<Prose, Tok("}")>>},
                 v \in {GoodReply, JList(<<GoodReply>>), JNum} }
        \cup {<<>>, <<Prose>>}

FirstIndex(toks, k) ==
    IF \E i \in 1..Len(toks) : toks[i].k = k
    THEN CHOOSE i \in 1..Len(toks) :
            toks[i].k = k /\ \A j \in 1..(i - 1) : toks[j].k # k
    ELSE 0

LastIndex(toks, k) ==
    IF \E i \in 1..Len(toks) : toks[i].k = k
    THEN CHOOSE i \in 1..Len(toks) :
            toks[i].k = k /\ \A j \in (i + 1)..Len(toks) : toks[j].k # k
    ELSE 0

\* "loose json extraction": from the first "{" to the last "}".
loose_extract(raw) ==
    LET start == FirstIndex(raw, "{")
        end == LastIndex(raw, "}")
    IN IF start # 0 /\ end # 0 /\ end > start THEN SubSeq(raw, start, end) ELSE raw

\* json.loads: ok with the value, or not ok (it raised).
json_loads(raw) ==
    IF \E v \in JsonValues : Rendering[v] = raw
    THEN [ok |-> TRUE, v |-> CHOOSE v \in JsonValues : Rendering[v] = raw]
    ELSE [ok |-> FALSE, v |-> JNull]

\* dict.get(key, default): the last member of that key.
dict_get(obj, key, default) ==
    LET ms == obj.items
        hits == {i \in 1..Len(ms) : ms[i][1] = key}
    IN IF hits = {} THEN default
       ELSE ms[CHOOSE i \in hits : \A j \in hits : j <= i][2]

\* What "for b in bullets" yields: a list's items, a string's characters, a
\* dict's keys.
iterate(b) ==
    CASE b.t = "list" -> b.items
      [] b.t = "str" -> [i \in 1..SLen(b.s) |-> JStr(Chars(b.s)[i])]
      [] b.t = "obj" -> [i \in 1..Len(b.items) |-> JStr(Lit(<<b.items[i][1]>>))]

\* [b.strip() for b in bullets if isinstance(b, str) and b.strip()]
RECURSIVE keep_bullets(_)
keep_bullets(items) ==
    IF Len(items) = 0 THEN <<>>
    ELSE IF items[1].t = "str" /\ Len(Strip(items[1].s)) > 0
         THEN <<Strip(items[1].s)>> \o keep_bullets(Tail(items))
    ELSE keep_bullets(Tail(items))

\* One call's environment: whether GEMINI_API_KEY is set, whether the cached
\* client's 60 s have passed, whether genai.Client(...) and generate_content
\* raise, and the reply's text.
Env(key, expired, ctor, call, raw) ==
    [key |-> key, expired |-> expired, ctor |-> ctor, call |-> call, raw |-> raw]

NoKeyEnv == Env(FALSE, FALSE, "ok", "raise", <<>>)

GeminiEnvs ==
    {NoKeyEnv}
        \cup { Env(TRUE, e, "raise", "raise", <<>>) : e \in BOOLEAN }
        \cup { Env(TRUE, e, "ok", "raise", <<>>) : e \in BOOLEAN }
        \cup { Env(TRUE, e, "ok", "text", raw) : e \in BOOLEAN, raw \in RawReplies }

\* gemini_client(): raised, or the client (None when there is no key), and
\* the cache afterwards.
gemini_client(o, cached) ==
    IF ~o.key THEN [raised |-> FALSE, client |-> FALSE, cached |-> cached]
    ELSE IF ~cached \/ o.expired
         THEN IF o.ctor = "raise"
              THEN [raised |-> TRUE, client |-> FALSE, cached |-> cached]
              ELSE [raised |-> FALSE, client |-> TRUE, cached |-> TRUE]
    ELSE [raised |-> FALSE, client |-> TRUE, cached |-> TRUE]

\* The try block of gemini_tldr: the bullets it returns, every exception in
\* it ending in the extractive fallback.
ai_bullets(o, txt, max) ==
    IF o.call = "raise" THEN extractive_fallback(txt, max)
    ELSE
        LET data == json_loads(loose_extract(o.raw)) IN
        IF ~data.ok THEN extractive_fallback(txt, max)
        ELSE IF data.v.t # "obj" THEN extractive_fallback(txt, max)
        ELSE
            LET b == dict_get(data.v, "bullets", JList(<<>>)) IN
            IF b.t \notin {"list", "str", "obj"} THEN extractive_fallback(txt, max)
            ELSE
                LET bullets == keep_bullets(iterate(b)) IN
                IF Len(bullets) > 0 THEN Prefix(bullets, max)
                ELSE extractive_fallback(txt, max)

gemini_tldr(o, cached, txt, max) ==
    LET c == gemini_client(o, cached) IN
    IF c.raised THEN [raised |-> TRUE, bullets |-> <<>>, cached |-> c.cached]
    ELSE IF ~c.client
         THEN [raised |-> FALSE, bullets |-> extractive_fallback(txt, max),
               cached |-> c.cached]
    ELSE [raised |-> FALSE, bullets |-> ai_bullets(o, txt, max), cached |-> c.cached]

\* Sentences the texts are made of: too short, plain, the same in capitals,
\* another, two long ones equal in their first 237 characters, one of exactly
\* 240 characters, one with a space at character 237, and boilerplate.
SentShort == Cat(Rep("a", 10), Rep(".", 1))
SentPlain == Cat(Rep("a", 40), Rep(".", 1))
SentCaps == Cat(Rep("A", 40), Rep(".", 1))
SentOther == Cat(Rep("b", 40), Rep("!", 1))
SentLongB == Rep("a", 237) \o Rep("b", 10) \o Rep(".", 1)
SentLongC == Rep("a", 237) \o Rep("c", 10) \o Rep(".", 1)
SentLimit == Cat(Rep("c", 239), Rep("?", 1))
SentSpace == Rep("b", 236) \o Rep(" ", 1) \o Rep("c", 10) \o Rep(".", 1)
SentBoiler ==
    Rep("c", 20) \o Lit(<<" ", "M", "a", "y", " ", "r", "e", "f", "e", "r", " ", "t", "o", " ">>)
        \o Rep("c", 20) \o Rep(".", 1)

SentPool ==
    {SentShort, SentPlain, SentCaps, SentOther, SentLongB, SentLongC, SentLimit,
     SentSpace, SentBoiler}

Seps == {<<<<"\n", 2>>, <<" ", 1>>>>}

RECURSIVE Join(_, _)
Join(ss, sep) ==
    IF Len(ss) = 0 THEN <<>>
    ELSE IF Len(ss) = 1 THEN ss[1]
    ELSE Norm(ss[1] \o sep \o Join(Tail(ss), sep))

\* Most sentences in a text.
MaxSents == 2

Texts ==
    UNION { { Join(ss, sep) : ss \in [1..n -> SentPool], sep \in Seps } : n \in 0..MaxSents }

\* AnalyzeRequest.max_bullets: Field(3, ge=1, le=6); ingest passes 3.
MinBullets == 1
MaxBullets == 6

NoTldr == [done |-> FALSE, by |-> "", raised |-> FALSE, bullets |-> <<>>, env |-> NoKeyEnv]

ScoreIdle == body = [nums |-> 0, quotes |-> 0, hedging_hits |-> 0, official_hits |-> 0]
             /\ score = NoScore

TldrIdle == text = <<>> /\ max_bullets = 3 /\ tldr = NoTldr

\* No feeds, no sources, an empty table and no ingest call.
IngestIdle ==
    /\ sources = <<>>
    /\ served = <<>>
    /\ gemini = {}
    /\ stories = <<>>
    /\ wlock = 0
    /\ conn = <<>>
    /\ run = <<>>
    /\ clock = 0
    /\ outcome = <<>>
    /\ listing = <<>>

TldrInit ==
    /\ text \in Texts
    /\ max_bullets \in MinBullets..MaxBullets
    /\ client \in BOOLEAN
    /\ tldr = NoTldr
    /\ ScoreIdle
    /\ IngestIdle

\* A call of gemini_tldr(title, text, max_bullets).
Tldr ==
    /\ ~tldr.done
    /\ \E o \in GeminiEnvs :
        LET r == gemini_tldr(o, client, text, max_bullets) IN
        /\ tldr' = [done |-> TRUE, by |-> "gemini_tldr", raised |-> r.raised,
                    bullets |-> r.bullets, env |-> o]
        /\ client' = r.cached
    /\ UNCHANGED <<text, max_bullets, scoreVars, envVars, ingestVars, listing>>

\* A call of extractive_fallback(text, max_bullets).
Fallback ==
    /\ ~tldr.done
    /\ tldr' = [done |-> TRUE, by |-> "extractive_fallback", raised |-> FALSE,
                bullets |-> extractive_fallback(text, max_bullets), env |-> NoKeyEnv]
    /\ UNCHANGED <<text, max_bullets, client, scoreVars, envVars, ingestVars, listing>>

TldrNext == Tldr \/ Fallback

SpecTldr == TldrInit /\ [][TldrNext]_vars

ScoreInit ==
    /\ body \in Bodies
    /\ score = NoScore
    /\ TldrIdle
    /\ client = FALSE
    /\ IngestIdle

\* A call of merit_score(title, text).
Score ==
    /\ ~score.done
    /\ score' = [done |-> TRUE] @@ merit_score(body)
    /\ UNCHANGED <<body, tldrVars, client, envVars, ingestVars, listing>>

ScoreNext == Score

SpecScore == ScoreInit /\ [][ScoreNext]_vars

(***************************************************************************)
(* Ingestion and the stories table                                         *)
(***************************************************************************)

\* The ingest calls that can be in progress at once.
Conns == {1, 2}

\* Ingest calls started in one behaviour.
MaxRuns == 2

\* entries = getattr(feed, "entries", [])[:40]
EntryCap == 40

\* hashlib.sha1(link).hexdigest(): a function of the link alone, taken to be
\* free of collisions.
stable_id(link) == <<"sha1", link>>

\* dtparser.parse(val), then UTC when there is no timezone; "error" when it
\* raises.
parse_date(val) ==
    CASE val = "naive" -> "utc"
      [] val = "aware" -> "aware"
      [] OTHER -> "error"

\* The first of "published", "updated" that is present and parses.
parse_published(e) ==
    IF e.published # "" /\ parse_date(e.published) # "error"
        THEN parse_date(e.published)
    ELSE IF e.updated # "" /\ parse_date(e.updated) # "error"
        THEN parse_date(e.updated)
    ELSE "None"

\* _TAG_RE.sub(" ", s): every "<", one or more characters other than ">",
\* then ">", becomes a space.
RECURSIVE strip_tags(_)
strip_tags(s) ==
    IF Len(s) = 0 THEN <<>>
    ELSE IF s[1][1] # "<" THEN <<s[1]>> \o strip_tags(Tail(s))
    ELSE
        LET closers == {j \in 2..Len(s) : s[j][1] = ">"} IN
        IF closers = {} THEN s
        ELSE
            LET j == CHOOSE k \in closers : \A m \in closers : k <= m IN
            IF s[1][2] = 1 /\ j = 2
                THEN <<s[1]>> \o strip_tags(Tail(s))
            ELSE <<<<" ", 1>>>>
                    \o strip_tags(Norm(<<<<">", s[j][2] - 1>>>> \o SubSeq(s, j + 1, Len(s))))

\* clean_html, for snippets without character entities.
clean_html(s) == Strip(CollapseWs(Norm(strip_tags(s))))

\* SELECT 1 FROM stories WHERE id = ?
row_exists(table, sid) == \E i \in 1..Len(table) : table[i].id = sid

sql_insert_no_pk(table, row) == [ok |-> TRUE, table |-> Append(table, row)]

RECURSIVE without_id(_, _)
without_id(table, sid) ==
    IF Len(table) = 0 THEN <<>>
    ELSE IF table[1].id = sid THEN without_id(Tail(table), sid)
    ELSE <<table[1]>> \o without_id(Tail(table), sid)

sql_insert_or_replace(table, row) ==
    [ok |-> TRUE, table |-> Append(without_id(table, row.id), row)]

\* INSERT INTO stories ... on a table whose id is PRIMARY KEY: not ok is
\* sqlite3.IntegrityError.
sql_insert(table, row) ==
    IF \E i \in 1..Len(table) : table[i].id = row.id
    THEN [ok |-> FALSE, table |-> table]
    ELSE [ok |-> TRUE, table |-> Append(table, row)]

NoTxn == [open |-> FALSE, table |-> <<>>]

\* What connection c reads: its own transaction's table once it has one.
view(committed, c) == IF c.open THEN c.table ELSE committed

db_commit_lost(committed, c) == committed

\* conn.commit()
db_commit(committed, c) == IF c.open THEN c.table ELSE committed

db_close_commits(committed, c) == IF c.open THEN c.table ELSE committed

\* conn.close(): an open transaction is rolled back.
db_close(committed, c) == committed

\* json.dumps of a list of strings, as tokens.
json_dumps(bullets) ==
    Render(JList([i \in 1..Len(bullets) |-> JStr(bullets[i])]))

\* json.loads of what json_dumps wrote: the strings between the brackets.
RECURSIVE json_loads_list(_)
json_loads_list(toks) ==
    IF Len(toks) = 0 THEN <<>>
    ELSE IF toks[1].k = "str" THEN <<toks[1].s>> \o json_loads_list(Tail(toks))
    ELSE json_loads_list(Tail(toks))

\* The row ingest inserts for entry e of source src.
new_row(e, src, bullets, now) ==
    LET sc == merit_score(e.feats) IN
    [id |-> stable_id(e.link), source |-> src.name, sport |-> src.sport,
     title |-> e.title, link |-> e.link, published |-> parse_published(e),
     summary |-> clean_html(e.summary), tldr_json |-> json_dumps(bullets),
     merit_score |-> sc.total, badge |-> sc.badge, created_at |-> now]

IdleRun ==
    [pc |-> "idle", status |-> "", error |-> "", srcs |-> <<>>, si |-> 1,
     entries |-> <<>>, ei |-> 1, fetched_items |-> 0, inserted |-> 0,
     skipped |-> 0, now |-> 0]

\* The loops of ingest after entry ei is dealt with: the next entry, or the
\* next source.
next_pos(rr) ==
    IF rr.ei + 1 <= Len(rr.entries)
    THEN [rr EXCEPT !.ei = @ + 1, !.pc = "entry"]
    ELSE [rr EXCEPT !.si = @ + 1, !.entries = <<>>, !.ei = 1, !.pc = "source"]

\* ingest() is entered: load_sources(), the counters, now, db_conn().
Start(r) ==
    /\ run[r].pc = "idle"
    /\ clock < MaxRuns
    /\ clock' = clock + 1
    /\ run' = [run EXCEPT ![r] =
                 [IdleRun EXCEPT !.pc = "source", !.srcs = sources, !.now = clock + 1]]
    /\ outcome' = Append(outcome, "running")
    /\ UNCHANGED <<dbVars, envVars, client, scoreVars, tldrVars, listing>>

\* One turn of "for src in sources" up to its entry loop: a source without
\* url, or whose fetch or parse raises, is passed over.
FetchSource(r) ==
    LET rr == run[r] IN
    /\ rr.pc = "source"
    /\ rr.si <= Len(rr.srcs)
    /\ LET src == rr.srcs[rr.si]
           entries == IF src.url # "" /\ served[src.url].ok
                      THEN Prefix(served[src.url].entries, EntryCap)
                      ELSE <<>>
       IN run' = [run EXCEPT ![r] =
                    IF Len(entries) = 0
                    THEN [rr EXCEPT !.si = @ + 1]
                    ELSE [rr EXCEPT !.entries = entries, !.ei = 1, !.pc = "entry"]]
    /\ UNCHANGED <<dbVars, clock, outcome, envVars, client, scoreVars, tldrVars, listing>>

\* One entry up to the existence check.
Entry(r) ==
    LET rr == run[r]
        e == rr.entries[rr.ei]
    IN
    /\ rr.pc = "entry"
    /\ run' = [run EXCEPT ![r] =
                 IF e.link = "" \/ e.title = "" THEN next_pos(rr)
                 ELSE IF row_exists(view(stories, conn[r]), stable_id(e.link))
                      THEN next_pos([rr EXCEPT !.fetched_items = @ + 1,
                                               !.skipped = @ + 1])
                 ELSE [rr EXCEPT !.fetched_items = @ + 1, !.pc = "insert"]]
    /\ UNCHANGED <<dbVars, clock, outcome, envVars, client, scoreVars, tldrVars, listing>>

\* An exception leaves ingest: "finally: conn.close()", no commit.
Raise(r, err) ==
    /\ run' = [run EXCEPT ![r].pc = "idle", ![r].status = "raised", ![r].error = err]
    /\ outcome' = [outcome EXCEPT ![run[r].now] = "raised"]
    /\ stories' = db_close(stories, conn[r])
    /\ conn' = [conn EXCEPT ![r] = NoTxn]
    /\ wlock' = IF wlock = r THEN 0 ELSE wlock

\* The existence check fails: the lock wait ran out.
CheckTimeout(r) ==
    /\ run[r].pc = "entry"
    /\ run[r].entries[run[r].ei].link # ""
    /\ run[r].entries[run[r].ei].title # ""
    /\ wlock \notin {0, r}
    /\ Raise(r, "OperationalError")
    /\ UNCHANGED <<clock, envVars, client, scoreVars, tldrVars, listing>>

\* The rest of a new entry: clean_html, parse_published, gemini_tldr,
\* merit_score and the INSERT, which opens the transaction and takes the write
\* lock.  While another connection holds the lock the INSERT waits.
Insert(r) ==
    LET rr == run[r]
        e == rr.entries[rr.ei]
    IN
    /\ rr.pc = "insert"
    /\ \E o \in gemini :
        LET res == gemini_tldr(o, client, clean_html(e.summary), 3)
            row == new_row(e, rr.srcs[rr.si], res.bullets, rr.now)
            ins == sql_insert(view(stories, conn[r]), row)
        IN
        /\ client' = res.cached
        /\ IF res.raised
           THEN Raise(r, "ClientError")
           ELSE /\ wlock \in {0, r}
                /\ IF ins.ok
                   THEN /\ conn' = [conn EXCEPT ![r] = [open |-> TRUE, table |-> ins.table]]
                        /\ wlock' = r
                        /\ run' = [run EXCEPT ![r] =
                                     next_pos([rr EXCEPT !.inserted = @ + 1])]
                        /\ UNCHANGED <<stories, outcome>>
                   ELSE Raise(r, "IntegrityError")
    /\ UNCHANGED <<clock, envVars, scoreVars, tldrVars, listing>>

\* The INSERT's wait for the write lock runs out (busy_timeout).
InsertTimeout(r) ==
    /\ run[r].pc = "insert"
    /\ wlock \notin {0, r}
    /\ Raise(r, "OperationalError")
    /\ UNCHANGED <<clock, envVars, client, scoreVars, tldrVars, listing>>

\* The INSERT fails in the storage engine itself (disk I/O error, database or
\* disk is full).
InsertIoError(r) ==
    /\ run[r].pc = "insert"
    /\ Raise(r, "OperationalError")
    /\ UNCHANGED <<clock, envVars, client, scoreVars, tldrVars, listing>>

\* After the last source: conn.commit(), conn.close(), the IngestResponse.
Commit(r) ==
    /\ run[r].pc = "source"
    /\ run[r].si > Len(run[r].srcs)
    /\ stories' = db_commit(stories, conn[r])
    /\ conn' = [conn EXCEPT ![r] = NoTxn]
    /\ wlock' = IF wlock = r THEN 0 ELSE wlock
    /\ run' = [run EXCEPT ![r].pc = "idle", ![r].status = "returned"]
    /\ outcome' = [outcome EXCEPT ![run[r].now] = "returned"]
    /\ UNCHANGED <<clock, envVars, client, scoreVars, tldrVars, listing>>

\* A feed's contents change (the publisher's side).
FeedChange(pool) ==
    /\ \E u \in DOMAIN served : \E f \in pool :
        /\ f # served[u]
        /\ served' = [served EXCEPT ![u] = f]
    /\ UNCHANGED <<sources, gemini, ingestVars, client, scoreVars, tldrVars, listing>>

\* POST /analyze: gemini_tldr and merit_score on the request, nothing stored.
\* The request is kept in text, max_bullets and body, the answer in tldr and
\* score (tldr.raised: the call ended in an error).
Analyze(reqs) ==
    \E req \in reqs : \E o \in gemini :
        LET res == gemini_tldr(o, client, req.text, req.max_bullets) IN
        /\ text' = req.text
        /\ max_bullets' = req.max_bullets
        /\ body' = req.feats
        /\ client' = res.cached
        /\ tldr' = [done |-> TRUE, by |-> "analyze", raised |-> res.raised,
                    bullets |-> res.bullets, env |-> o]
        /\ score' = IF res.raised THEN NoScore
                    ELSE [done |-> TRUE] @@ merit_score(req.feats)
        /\ UNCHANGED <<envVars, ingestVars, listing>>

\* Row to Story, as GET /stories builds it.
to_story(r) ==
    [id |-> r.id, source |-> r.source, sport |-> r.sport, title |-> r.title,
     link |-> r.link, published |-> r.published, summary |-> r.summary,
     tldr |-> json_loads_list(r.tldr_json), merit_score |-> r.merit_score,
     badge |-> IF r.badge # "" THEN r.badge ELSE badge(r.merit_score),
     created_at |-> r.created_at]

\* SELECT * FROM stories [WHERE sport = ? AND source = ?] ORDER BY created_at
\* DESC LIMIT ?  -- rows of equal created_at come in either order.  A filter
\* of "" is no filter.
select_stories(table, sport, source, limit) ==
    LET hits == {i \in 1..Len(table) :
                    /\ sport = "" \/ table[i].sport = sport
                    /\ source = "" \/ table[i].source = source}
        n == Min(limit, Cardinality(hits))
    IN { [k \in 1..n |-> table[q[k]]] :
           q \in { p \in [1..n -> hits] :
                     /\ \A a, b \in 1..n : a < b =>
                           /\ p[a] # p[b]
                           /\ table[p[a]].created_at >= table[p[b]].created_at
                     /\ \A i \in hits :
                           (\A a \in 1..n : p[a] # i) =>
                               \A a \in 1..n :
                                   table[p[a]].created_at >= table[i].created_at } }

\* GET /stories
Stories(queries) ==
    \E q \in queries :
        \E rows \in select_stories(stories, q.sport, q.source, q.limit) :
            /\ listing' = [k \in 1..Len(rows) |-> to_story(rows[k])]
            /\ UNCHANGED <<envVars, ingestVars, client, scoreVars, tldrVars>>

(***************************************************************************)
(* Feeds, sources and initial stores of the specifications                 *)
(***************************************************************************)

Hedged == [nums |-> 0, quotes |-> 0, hedging_hits |-> 1, official_hits |-> 0]
Official == [nums |-> 4, quotes |-> 2, hedging_hits |-> 0, official_hits |-> 1]

Html(s) == Lit(<<"<", "p", ">">>) \o s \o Lit(<<"<", "/", "p", ">">>)

EntryA ==
    [link |-> "L1", title |-> "T1", summary |-> Html(SentPlain), feats |-> Hedged,
     published |-> "naive", updated |-> ""]
\* The link of EntryA under another title and text.
EntryA2 ==
    [link |-> "L1", title |-> "T2", summary |-> Html(SentOther), feats |-> Official,
     published |-> "garbage", updated |-> "aware"]
EntryB ==
    [link |-> "L2", title |-> "T2", summary |-> SentShort, feats |-> Official,
     published |-> "", updated |-> ""]
EntryNoTitle == [EntryB EXCEPT !.title = ""]
EntryNoLink == [EntryA EXCEPT !.link = ""]

FeedFails == [ok |-> FALSE, entries |-> <<>>]
Feed(es) == [ok |-> TRUE, entries |-> es]

\* One entry more than the cap: forty times EntryA, then EntryB.
FeedLong == Feed([i \in 1..(EntryCap + 1) |-> IF i <= EntryCap THEN EntryA ELSE EntryB])

Urls == {"u1", "u2"}

SourceOne == [name |-> "BBC", sport |-> "football", url |-> "u1"]
SourceNoUrl == [name |-> "draft", sport |-> "football", url |-> ""]
SourceTwo == [name |-> "ESPN", sport |-> "cricket", url |-> "u2"]

ClientFails == Env(TRUE, FALSE, "raise", "raise", <<>>)
ServiceFails == Env(TRUE, FALSE, "ok", "raise", <<>>)
ServiceAnswers == Env(TRUE, FALSE, "ok", "text", Rendering[GoodReply])

StoredA == new_row(EntryA2, SourceTwo, <<>>, 0)
StoredB == new_row(EntryB, SourceTwo, <<>>, 0)

OtherIdle ==
    /\ ScoreIdle
    /\ TldrIdle
    /\ listing = <<>>

IngestInit ==
    /\ wlock = 0
    /\ conn = [r \in Conns |-> NoTxn]
    /\ run = [r \in Conns |-> IdleRun]
    /\ clock = 0
    /\ outcome = <<>>
    /\ client = FALSE
    /\ OtherIdle

\* One ingest call after another, the feeds unchanged throughout.
SeqFeeds ==
    {FeedFails, Feed(<<EntryA>>), Feed(<<EntryA, EntryA2>>), Feed(<<EntryNoTitle, EntryB>>),
     Feed(<<EntryNoLink, EntryA2>>), FeedLong}

SeqInit ==
    /\ sources = <<SourceOne, SourceNoUrl, SourceTwo>>
    /\ served \in [Urls -> SeqFeeds]
    /\ gemini = {NoKeyEnv, ClientFails, ServiceFails, ServiceAnswers}
    /\ stories \in {<<>>, <<StoredA>>, <<StoredB, StoredA>>}
    /\ IngestInit

SeqNext ==
    \E r \in {1} :
        \/ Start(r)
        \/ FetchSource(r)
        \/ Entry(r)
        \/ Insert(r)
        \/ Commit(r)

SpecSeq == SeqInit /\ [][SeqNext]_vars

\* Two ingest calls at once.
ConcFeeds == {FeedFails, Feed(<<EntryA>>), Feed(<<EntryB, EntryA2>>)}

ConcInit ==
    /\ sources = <<SourceOne, SourceTwo>>
    /\ served \in [Urls -> ConcFeeds]
    /\ gemini = {NoKeyEnv, ClientFails, ServiceAnswers}
    /\ stories \in {<<>>, <<StoredB>>}
    /\ IngestInit

ConcNext ==
    \E r \in Conns :
        \/ Start(r)
        \/ FetchSource(r)
        \/ Entry(r)
        \/ CheckTimeout(r)
        \/ Insert(r)
        \/ InsertTimeout(r)
        \/ InsertIoError(r)
        \/ Commit(r)

SpecConc == ConcInit /\ [][ConcNext]_vars

\* The whole API: ingest calls at once, analyze, stories, feeds that change.
ApiFeeds == {FeedFails, Feed(<<EntryA>>), Feed(<<EntryA2>>)}

AnalyzeRequests ==
    { [text |-> Join(<<SentPlain, SentOther>>, Rep(" ", 1)), max_bullets |-> 1,
       feats |-> Official] }

StoriesQueries ==
    { [sport |-> "", source |-> "", limit |-> 1],
      [sport |-> "football", source |-> "BBC", limit |-> 30] }

Init ==
    /\ sources = <<SourceOne>>
    /\ served \in [{"u1"} -> ApiFeeds]
    /\ gemini = {NoKeyEnv, ClientFails}
    /\ stories \in {<<>>, <<StoredB>>}
    /\ IngestInit

Next ==
    \/ \E r \in Conns :
        \/ Start(r)
        \/ FetchSource(r)
        \/ Entry(r)
        \/ CheckTimeout(r)
        \/ Insert(r)
        \/ InsertTimeout(r)
        \/ InsertIoError(r)
        \/ Commit(r)
    \/ FeedChange(ApiFeeds)
    \/ Analyze(AnalyzeRequests)
    \/ Stories(StoriesQueries)

Spec == Init /\ [][Next]_vars

(***************************************************************************)
(* Claims on the scorer (specification SpecScore)                          *)
(***************************************************************************)

ExpectedEvidence == IF body.official_hits > 0 THEN 28
                    ELSE IF body.hedging_hits > 0 THEN 6 ELSE 12

ExpectedDensity ==
    LET q == IF body.quotes > 12 THEN 12 ELSE body.quotes
        d == body.nums * 3 + q
    IN IF d > 35 THEN 35 ELSE d

ExpectedTotal ==
    LET t == ExpectedDensity + ExpectedEvidence + 15 + 10 + 10
    IN IF t < 0 THEN 0 ELSE IF t > 100 THEN 100 ELSE t

ExpectedTier ==
    CASE ExpectedTotal \in 0..20 -> "Speculative"
      [] ExpectedTotal \in 21..40 -> "Low Evidence"
      [] ExpectedTotal \in 41..60 -> "Emerging"
      [] ExpectedTotal \in 61..80 -> "High Credibility"
      [] OTHER -> "Confirmed"

\* C6: merit_score returns total = clamp(0, 100, min(35, nums*3 + min(12,
\* quotes)) + (28 if official, else 12, or 6 when hedging) + 15 + 10 + 10),
\* the total lies in [0, 100], and the badge is the tier of that total under
\* the fixed thresholds 20 / 40 / 60 / 80.
C6_TotalAndBadge ==
    score.done =>
        /\ score.total = ExpectedTotal
        /\ score.total \in 0..100
        /\ score.badge = ExpectedTier

\* The density cap is reached and the total sits on a tier boundary.
C6_Witness ==
    \/ /\ score.done
       /\ body.nums * 3 + body.quotes > 35
       /\ score.badge = "Confirmed"
    \/ /\ score.done
       /\ score.total = 60
       /\ score.badge = "Emerging"

Priority ==
    <<R_OFFICIAL, R_HEDGING, R_NUMS_HIGH, R_NUMS_LOW, R_QUOTES, R_HIGH, R_LOW>>

Rank(r) == CHOOSE i \in 1..Len(Priority) : Priority[i] = r

Has(seq, x) == \E i \in 1..Len(seq) : seq[i] = x

Applies(r) ==
    CASE r = R_OFFICIAL -> body.official_hits > 0
      [] r = R_HEDGING -> body.hedging_hits > 0 /\ body.official_hits = 0
      [] r = R_NUMS_HIGH -> body.nums >= 3
      [] r = R_NUMS_LOW -> body.nums = 0
      [] r = R_QUOTES -> body.quotes >= 2
      [] r = R_HIGH -> score.total >= 80
      [] r = R_LOW -> score.total <= 40

\* C7: the reasons list has at most 4 entries, no repeated entry, holds
\* exactly the applicable reasons in the fixed priority order, never holds
\* both the hedging and the official reason, and holds at most one reason of
\* the density pair and at most one of the overall pair.
C7_Reasons ==
    score.done =>
        LET rs == score.reasons IN
        /\ Len(rs) <= 4
        /\ \A i \in 1..Len(rs) : Has(Priority, rs[i])
        /\ \A i, j \in 1..Len(rs) : i < j => Rank(rs[i]) < Rank(rs[j])
        /\ \A k \in 1..Len(Priority) : Has(rs, Priority[k]) <=> Applies(Priority[k])
        /\ ~(Has(rs, R_OFFICIAL) /\ Has(rs, R_HEDGING))
        /\ ~(Has(rs, R_NUMS_HIGH) /\ Has(rs, R_NUMS_LOW))
        /\ ~(Has(rs, R_HIGH) /\ Has(rs, R_LOW))

\* Hedging and official words both present, and four reasons returned.
C7_Witness ==
    /\ score.done
    /\ body.hedging_hits > 0
    /\ body.official_hits > 0
    /\ Len(score.reasons) = 4
    /\ score.reasons[1] = R_OFFICIAL

\* C9: the total always lies in [41, 98], so the badge is never
\* "Speculative" nor "Low Evidence" and the low-evidence reason never appears.
C9_TotalRange ==
    score.done =>
        /\ score.total \in 41..98
        /\ score.badge \notin {"Speculative", "Low Evidence"}
        /\ ~Has(score.reasons, R_LOW)

\* Both extremes of the range are returned (each in its own state).
C9_Witness ==
    /\ score.done
    /\ \/ score.total = 41 /\ body.hedging_hits > 0 /\ body.nums = 0
       \/ score.total = 98 /\ body.official_hits > 0

(***************************************************************************)
(* Claims on the summarizer (specification SpecTldr)                       *)
(***************************************************************************)

\* The reply as the AI path reads it.
Payload == json_loads(loose_extract(tldr.env.raw))

BulletsField == dict_get(Payload.v, "bullets", JNull)

\* A step of the AI path failed: no credential, client construction, the
\* service call, a reply that is not valid JSON or not a JSON object, a
\* missing, non-list or empty bullets field.
AiStepFailed ==
    \/ ~tldr.env.key
    \/ tldr.env.ctor = "raise"
    \/ tldr.env.call = "raise"
    \/ ~Payload.ok
    \/ Payload.v.t # "obj"
    \/ BulletsField.t # "list"
    \/ Len(BulletsField.items) = 0

\* C2: gemini_tldr never raises: whatever step of the AI path fails, the call
\* returns extractive_fallback(text, max_bullets).
C2_NeverRaises ==
    (tldr.done /\ tldr.by = "gemini_tldr") =>
        /\ ~tldr.raised
        /\ AiStepFailed => tldr.bullets = extractive_fallback(text, max_bullets)

Sentences == SplitSentences(Strip(CollapseWs(text)))

Shown(s) ==
    IF SLen(s) > 240 THEN Cat(RStrip(Take(s, 237)), Rep(".", 3)) ELSE s

\* C8: extractive_fallback returns at most max_bullets entries, no two of
\* them equal when compared case-insensitively, in the order of their
\* sentences in the text.
C8_FallbackShape ==
    (tldr.done /\ tldr.by = "extractive_fallback") =>
        LET out == tldr.bullets IN
        /\ Len(out) <= max_bullets
        /\ \A i, j \in 1..Len(out) : i # j => Lower(out[i]) # Lower(out[j])
        /\ \E f \in [1..Len(out) -> 1..Len(Sentences)] :
              /\ \A i, j \in 1..Len(out) : i < j => f[i] < f[j]
              /\ \A i \in 1..Len(out) : out[i] = Shown(Sentences[f[i]])

(***************************************************************************)
(* Claims on ingestion (specifications SpecSeq, SpecConc and Spec)         *)
(***************************************************************************)

Returned(r) == run[r].pc = "idle" /\ run[r].status = "returned"

\* C1: once an ingest call has run to completion, a later call over the same
\* feeds reports inserted = 0 and skipped = fetched_items, and the stored
\* stories stay as the first call left them.  (Under SpecSeq the feeds never
\* change and the calls follow one another.)
C1_Idempotent ==
    [][ \A k \in 1..Len(outcome) :
            outcome[k] = "returned" =>
                /\ stories' = stories
                /\ \A r \in Conns :
                      (run'[r].now > k /\ run'[r].pc = "idle"
                          /\ run'[r].status = "returned") =>
                          /\ run'[r].inserted = 0
                          /\ run'[r].skipped = run'[r].fetched_items ]_vars

\* A second call has returned, having skipped the forty entries of the long
\* feed and one more.
C1_Witness ==
    /\ Len(outcome) = 2
    /\ outcome[1] = "returned"
    /\ Returned(1)
    /\ run[1].now = 2
    /\ run[1].fetched_items > EntryCap
    /\ run[1].skipped = run[1].fetched_items

NoTwoRowsOfOneId(table) ==
    \A i, j \in 1..Len(table) : table[i].id = table[j].id => i = j

\* C3: under every interleaving of two ingest calls the stories table never
\* holds two rows with the same id, in the committed table and in what either
\* connection sees, also when both calls passed the existence check of one id.
C3_NoDuplicateId ==
    /\ NoTwoRowsOfOneId(stories)
    /\ \A r \in Conns : NoTwoRowsOfOneId(view(stories, conn[r]))

\* Both calls passed the existence check of one id; one has committed its row
\* and the other's INSERT hit the primary key.
C3_Witness ==
    \E r, q \in Conns :
        /\ r # q
        /\ run[r].error = "IntegrityError"
        /\ Returned(q)
        /\ run[q].inserted > 0
        /\ run[r].fetched_items > 0
        /\ \E i \in 1..Len(stories) : stories[i].created_at = run[q].now

\* The sources of call r that were fetched and parsed.
Succeeded(r) ==
    {i \in 1..Len(run[r].srcs) :
        run[r].srcs[i].url # "" /\ served[run[r].srcs[i].url].ok}

SomeSourceFailed(r) ==
    \E i \in 1..Len(run[r].srcs) :
        run[r].srcs[i].url # "" /\ ~served[run[r].srcs[i].url].ok

Counted(r) ==
    {<<i, j>> \in (1..Len(run[r].srcs)) \X (1..EntryCap) :
        /\ i \in Succeeded(r)
        /\ j <= Len(served[run[r].srcs[i].url].entries)
        /\ served[run[r].srcs[i].url].entries[j].link # ""
        /\ served[run[r].srcs[i].url].entries[j].title # ""}

\* C4: a call in which some sources fail still goes through every later
\* source and returns normally; every titled and linked entry among the first
\* 40 of every source that succeeded is then in the committed table, and the
\* counters count those entries only.
C4_FailedSourceSkipped ==
    \A r \in Conns :
        (run[r].pc = "idle" /\ run[r].status # "" /\ SomeSourceFailed(r)) =>
            /\ run[r].status = "returned"
            /\ run[r].si = Len(run[r].srcs) + 1
            /\ run[r].fetched_items = Cardinality(Counted(r))
            /\ run[r].inserted + run[r].skipped = run[r].fetched_items
            /\ \A p \in Counted(r) :
                  row_exists(stories,
                             stable_id(served[run[r].srcs[p[1]].url].entries[p[2]].link))

\* C5: a committed row keeps every field and its place and is never removed;
\* the table changes only by an ingest call's commit, so a step that answers
\* analyze or stories leaves it as it is.
C5_AppendOnly ==
    [][ /\ Len(stories') >= Len(stories)
        /\ \A i \in 1..Len(stories) : stories'[i] = stories[i]
        /\ stories' # stories =>
              /\ \E r \in Conns :
                    conn[r].open /\ stories' = conn[r].table /\ run'[r].status = "returned"
              /\ tldr' = tldr /\ score' = score /\ listing' = listing ]_vars

\* Two calls have returned, the feed now gives the stored link another title,
\* the row keeps the one it was stored with, and analyze and stories were
\* answered.
C5_Witness ==
    /\ Len(outcome) = 2
    /\ \A k \in 1..2 : outcome[k] = "returned"
    /\ served["u1"] = Feed(<<EntryA2>>)
    /\ \E i \in 1..Len(stories) :
          stories[i].id = stable_id("L1") /\ stories[i].title = "T1"
    /\ tldr.done /\ tldr.by = "analyze"
    /\ Len(listing) > 0

StorageError(r) ==
    /\ run[r].status = "raised"
    /\ run[r].error \in {"IntegrityError", "OperationalError"}

\* C10: a call in which an existence check or an INSERT fails with a storage
\* error ends with that error, its commit not reached, and none of the rows it
\* inserted is in the table afterwards: every row there is one of the initial
\* rows or the row of a call that returned.
C10_AllOrNothing ==
    /\ \A r \in Conns :
          StorageError(r) =>
              /\ run[r].pc = "idle"
              /\ outcome[run[r].now] = "raised"
              /\ ~conn[r].open
              /\ wlock # r
              /\ \A i \in 1..Len(stories) : stories[i].created_at # run[r].now
    /\ \A i \in 1..Len(stories) :
          \/ stories[i].created_at = 0
          \/ outcome[stories[i].created_at] = "returned"

\* A call failed with a storage error after it had inserted a row, and the
\* other call's rows are committed.
C10_Witness ==
    \E r, q \in Conns :
        /\ r # q
        /\ StorageError(r)
        /\ run[r].inserted > 0
        /\ Returned(q)
        /\ \E i \in 1..Len(stories) : stories[i].created_at = run[q].now

=============================================================================
